---- MODULE Spec2Model ----
(***************************************************************************)
(* JavaSpringGenerator (frontend/src/uml/codegen/JavaSpringGenerator.ts):  *)
(* the diagram-to-backend code generator.  A JavaScript string is a        *)
(* sequence of characters, each character a one-character TLA+ string      *)
(* (characters outside ASCII are written by their code point, "U+00E9").   *)
(* A generated Java source text is represented by the structure the        *)
(* template writes: an entity is its list of field declarations, each with *)
(* its annotations' arguments.                                             *)
(***************************************************************************)
EXTENDS Integers, Sequences, FiniteSets, TLC

\* classes, relations, packageName: the private fields of JavaSpringGenerator;
\* ret: what the last call on the generator returned
VARIABLES classes, relations, packageName, ret, other, arg,
          graph, toasts, downloads, exports, repository, response

vars == <<classes, relations, packageName, ret, other, arg,
          graph, toasts, downloads, exports, repository, response>>

(* ------------------------------ characters ----------------------------- *)

LowerLetters == <<"a","b","c","d","e","f","g","h","i","j","k","l","m","n","o","p","q","r","s","t","u","v","w","x","y","z">>

UpperLetters == <<"A","B","C","D","E","F","G","H","I","J","K","L","M","N","O","P","Q","R","S","T","U","V","W","X","Y","Z">>

Digits == {"0","1","2","3","4","5","6","7","8","9"}

\* \p{L} characters outside ASCII (no case mapping needed by the model)
OtherUnicodeLetters == {"U+00DF"}

\* \p{N} characters outside ASCII: in \p{N}, not matched by \d
OtherUnicodeDigits == {"U+0663"}

WhiteSpace == {" ", "\t"}

IndexOf(seq, c) == CHOOSE i \in 1..Len(seq) : seq[i] = c

InSeq(seq, c) == \E i \in 1..Len(seq) : seq[i] = c

toLowerCaseChar(c) == IF InSeq(UpperLetters, c) THEN LowerLetters[IndexOf(UpperLetters, c)] ELSE c

toUpperCaseChar(c) == IF InSeq(LowerLetters, c) THEN UpperLetters[IndexOf(LowerLetters, c)] ELSE c

toLowerCase(s) == [i \in 1..Len(s) |-> toLowerCaseChar(s[i])]

IsLetter(c) == InSeq(LowerLetters, c) \/ InSeq(UpperLetters, c) \/ c \in OtherUnicodeLetters

IsNumber(c) == c \in Digits \/ c \in OtherUnicodeDigits

\* \w of a JavaScript regular expression
IsWordChar(c) == InSeq(LowerLetters, c) \/ InSeq(UpperLetters, c) \/ c \in Digits \/ c = "_"

EndsWith(s, suffix) ==
    /\ Len(s) >= Len(suffix)
    /\ SubSeq(s, Len(s) - Len(suffix) + 1, Len(s)) = suffix

\* String.prototype.trim
RECURSIVE TrimLeft(_)
TrimLeft(s) == IF s # <<>> /\ Head(s) \in WhiteSpace THEN TrimLeft(Tail(s)) ELSE s

RECURSIVE TrimRight(_)
TrimRight(s) ==
    IF s # <<>> /\ s[Len(s)] \in WhiteSpace THEN TrimRight(SubSeq(s, 1, Len(s) - 1)) ELSE s

Trim(s) == TrimRight(TrimLeft(s))

\* decimal digits of a positive number, as `${index + 1}` writes them
RECURSIVE NumberToString(_)
NumberToString(n) ==
    LET d == <<"0","1","2","3","4","5","6","7","8","9">>[(n % 10) + 1]
    IN IF n < 10 THEN <<d>> ELSE NumberToString(n \div 10) \o <<d>>

(* -------------------------------- utils -------------------------------- *)

safeStr(s, fallback) == IF Trim(s) # <<>> THEN Trim(s) ELSE fallback

reserved ==
    { <<"c","l","a","s","s">>,
      <<"i","n","t","e","r","f","a","c","e">>,
      <<"a","b","s","t","r","a","c","t">>,
      <<"p","u","b","l","i","c">>,
      <<"p","r","i","v","a","t","e">>,
      <<"p","r","o","t","e","c","t","e","d">>,
      <<"s","t","a","t","i","c">>,
      <<"f","i","n","a","l">>,
      <<"v","o","l","a","t","i","l","e">>,
      <<"t","r","a","n","s","i","e","n","t">>,
      <<"s","y","n","c","h","r","o","n","i","z","e","d">>,
      <<"n","a","t","i","v","e">>,
      <<"s","t","r","i","c","t","f","p">> }

toCamelCase(str) ==
    LET s == safeStr(str, <<>>)
        out == <<toLowerCaseChar(s[1])>> \o Tail(s)
    IN IF s = <<>> THEN <<"v","a","l","u","e">>
       ELSE IF out \in reserved THEN out \o <<"E","n","t","i","t","y">>
       ELSE out

toPascal(str) ==
    LET s == safeStr(str, <<>>)
    IN IF s = <<>> THEN <<"V","a","l","u","e">>
       ELSE <<toUpperCaseChar(s[1])>> \o Tail(s)

Vowels == {"a","e","i","o","u"}

\* a plural without the rule for the ending fe
toPlural_plain(str) ==
    LET s == safeStr(str, <<>>)
        n == Len(s)
    IN IF s = <<>> THEN <<"i","t","e","m","s">>
       ELSE IF \/ s[n] \in {"s","x","z"}
               \/ EndsWith(s, <<"s","h">>)
               \/ EndsWith(s, <<"c","h">>)
            THEN s \o <<"e","s">>
       ELSE IF n >= 2 /\ s[n] = "y" /\ s[n-1] \notin Vowels
            THEN SubSeq(s, 1, n - 1) \o <<"i","e","s">>
       ELSE IF EndsWith(s, <<"f">>) THEN SubSeq(s, 1, n - 1) \o <<"v","e","s">>
       ELSE s \o <<"s">>

toPlural(str) ==
    LET s == safeStr(str, <<>>)
        n == Len(s)
    IN IF s = <<>> THEN <<"i","t","e","m","s">>
       ELSE IF \/ s[n] \in {"s","x","z"}
               \/ EndsWith(s, <<"s","h">>)
               \/ EndsWith(s, <<"c","h">>)
            THEN s \o <<"e","s">>
       ELSE IF n >= 2 /\ s[n] = "y" /\ s[n-1] \notin Vowels
            THEN SubSeq(s, 1, n - 1) \o <<"i","e","s">>
       ELSE IF EndsWith(s, <<"f">>) THEN SubSeq(s, 1, n - 1) \o <<"v","e","s">>
       ELSE IF EndsWith(s, <<"f","e">>) THEN SubSeq(s, 1, n - 2) \o <<"v","e","s">>
       ELSE s \o <<"s">>

sanitizeIdentifier(raw, fallback) ==
    LET v == safeStr(raw, fallback)
        s == [i \in 1..Len(v) |->
                 IF IsLetter(v[i]) \/ IsNumber(v[i]) \/ v[i] \in {"_", "$"}
                 THEN v[i] ELSE "_"]
    IN IF s # <<>> /\ s[1] \in Digits THEN <<"_">> \o s ELSE s

\* sanitizeIdentifier of the diagram page: the fallback is returned as it is
pageSanitizeIdentifier(raw, fallback) ==
    LET v == Trim(raw)
        s == [i \in 1..Len(v) |->
                 IF IsLetter(v[i]) \/ IsNumber(v[i]) \/ v[i] \in {"_", "$"}
                 THEN v[i] ELSE "_"]
    IN IF v = <<>> THEN fallback
       ELSE IF s[1] \in Digits THEN <<"_">> \o s ELSE s

primitives ==
    { <<"i","n","t">>,
      <<"l","o","n","g">>,
      <<"d","o","u","b","l","e">>,
      <<"f","l","o","a","t">>,
      <<"b","o","o","l","e","a","n">>,
      <<"b","y","t","e">>,
      <<"s","h","o","r","t">>,
      <<"c","h","a","r">>,
      <<"v","o","i","d">> }

common ==
    { <<"S","t","r","i","n","g">>,
      <<"I","n","t","e","g","e","r">>,
      <<"L","o","n","g">>,
      <<"D","o","u","b","l","e">>,
      <<"F","l","o","a","t">>,
      <<"B","o","o","l","e","a","n">>,
      <<"B","i","g","D","e","c","i","m","a","l">>,
      <<"D","a","t","e">>,
      <<"L","o","c","a","l","D","a","t","e">>,
      <<"L","o","c","a","l","D","a","t","e","T","i","m","e">>,
      <<"U","U","I","D">> }

\* a test that knows the listed type names only
isJavaType_listed(token) ==
    LET t == Trim(token)
    IN t \in primitives \/ t \in common

isJavaType(token) ==
    LET t == Trim(token)
    IN \/ t \in primitives
       \/ t \in common
       \/ /\ t # <<>>
          /\ InSeq(UpperLetters, t[1])
          /\ \A i \in 2..Len(t) : IsWordChar(t[i])

typeMap ==
    {
       <<<<"i","n","t">>, <<"I","n","t","e","g","e","r">>>>,
       <<<<"I","n","t">>, <<"I","n","t","e","g","e","r">>>>,
       <<<<"i","n","t","e","g","e","r">>, <<"I","n","t","e","g","e","r">>>>,
       <<<<"I","n","t","e","g","e","r">>, <<"I","n","t","e","g","e","r">>>>,
       <<<<"l","o","n","g">>, <<"L","o","n","g">>>>,
       <<<<"L","o","n","g">>, <<"L","o","n","g">>>>,
       <<<<"s","t","r","i","n","g">>, <<"S","t","r","i","n","g">>>>,
       <<<<"S","t","r","i","n","g">>, <<"S","t","r","i","n","g">>>>,
       <<<<"t","e","x","t">>, <<"S","t","r","i","n","g">>>>,
       <<<<"T","e","x","t">>, <<"S","t","r","i","n","g">>>>,
       <<<<"d","o","u","b","l","e">>, <<"D","o","u","b","l","e">>>>,
       <<<<"D","o","u","b","l","e">>, <<"D","o","u","b","l","e">>>>,
       <<<<"f","l","o","a","t">>, <<"F","l","o","a","t">>>>,
       <<<<"F","l","o","a","t">>, <<"F","l","o","a","t">>>>,
       <<<<"d","e","c","i","m","a","l">>, <<"B","i","g","D","e","c","i","m","a","l">>>>,
       <<<<"D","e","c","i","m","a","l">>, <<"B","i","g","D","e","c","i","m","a","l">>>>,
       <<<<"m","o","n","e","y">>, <<"B","i","g","D","e","c","i","m","a","l">>>>,
       <<<<"c","u","r","r","e","n","c","y">>, <<"B","i","g","D","e","c","i","m","a","l">>>>,
       <<<<"b","o","o","l">>, <<"B","o","o","l","e","a","n">>>>,
       <<<<"B","o","o","l">>, <<"B","o","o","l","e","a","n">>>>,
       <<<<"b","o","o","l","e","a","n">>, <<"B","o","o","l","e","a","n">>>>,
       <<<<"B","o","o","l","e","a","n">>, <<"B","o","o","l","e","a","n">>>>,
       <<<<"d","a","t","e">>, <<"L","o","c","a","l","D","a","t","e">>>>,
       <<<<"D","a","t","e">>, <<"L","o","c","a","l","D","a","t","e">>>>,
       <<<<"d","a","t","e","t","i","m","e">>, <<"L","o","c","a","l","D","a","t","e","T","i","m","e">>>>,
       <<<<"D","a","t","e","T","i","m","e">>, <<"L","o","c","a","l","D","a","t","e","T","i","m","e">>>>,
       <<<<"t","i","m","e","s","t","a","m","p">>, <<"L","o","c","a","l","D","a","t","e","T","i","m","e">>>>,
       <<<<"u","u","i","d">>, <<"U","U","I","D">>>>,
       <<<<"U","U","I","D">>, <<"U","U","I","D">>>>,
       <<<<"g","u","i","d">>, <<"U","U","I","D">>>>
    }

\* keys every object literal inherits from Object.prototype: typeMap[k] is
\* then a function or an object, which is truthy and so is returned
ObjectPrototypeKeys ==
    { <<"c","o","n","s","t","r","u","c","t","o","r">>,
      <<"t","o","S","t","r","i","n","g">>,
      <<"v","a","l","u","e","O","f">>,
      <<"h","a","s","O","w","n","P","r","o","p","e","r","t","y">>,
      <<"i","s","P","r","o","t","o","t","y","p","e","O","f">>,
      <<"p","r","o","p","e","r","t","y","I","s","E","n","u","m","e","r","a","b","l","e">>,
      <<"t","o","L","o","c","a","l","e","S","t","r","i","n","g">>,
      <<"_","_","p","r","o","t","o","_","_">>,
      <<"_","_","d","e","f","i","n","e","G","e","t","t","e","r","_","_">>,
      <<"_","_","d","e","f","i","n","e","S","e","t","t","e","r","_","_">>,
      <<"_","_","l","o","o","k","u","p","G","e","t","t","e","r","_","_">>,
      <<"_","_","l","o","o","k","u","p","S","e","t","t","e","r","_","_">> }

InheritedMember(k) == <<"Object.prototype.">> \o k

mapToJavaType(type) ==
    LET normalized == Trim(type)
    IN IF \E e \in typeMap : e[1] = normalized
       THEN (CHOOSE e \in typeMap : e[1] = normalized)[2]
       ELSE IF normalized \in ObjectPrototypeKeys THEN InheritedMember(normalized)
       ELSE <<"S","t","r","i","n","g">>

(* --------------------------- attribute parser -------------------------- *)

String == <<"S","t","r","i","n","g">>

fieldFallback(index) == <<"f","i","e","l","d","_">> \o NumberToString(index + 1)

\* raw.split(/\s+/).filter(Boolean)
RECURSIVE SplitWs(_, _)
SplitWs(s, cur) ==
    IF s = <<>> THEN (IF cur = <<>> THEN <<>> ELSE <<cur>>)
    ELSE IF Head(s) \in WhiteSpace
         THEN (IF cur = <<>> THEN <<>> ELSE <<cur>>) \o SplitWs(Tail(s), <<>>)
         ELSE SplitWs(Tail(s), Append(cur, Head(s)))

\* index is 0-based, as in cls.attributes.forEach((a, i) => ...)
parseAttribute(line, index) ==
    LET raw == safeStr(line, <<>>)
        colonIdx == IndexOf(raw, ":")
        parts == SplitWs(raw, <<>>)
    IN IF raw = <<>> THEN [type |-> String, name |-> fieldFallback(index)]
       ELSE IF InSeq(raw, ":")
            THEN [type |-> mapToJavaType(
                               Trim(safeStr(SubSeq(raw, colonIdx + 1, Len(raw)), String))),
                  name |-> toCamelCase(
                               sanitizeIdentifier(Trim(SubSeq(raw, 1, colonIdx - 1)),
                                                  fieldFallback(index)))]
       ELSE IF Len(parts) = 2 /\ isJavaType(parts[1])
            THEN [type |-> mapToJavaType(parts[1]),
                  name |-> toCamelCase(sanitizeIdentifier(parts[2], fieldFallback(index)))]
       ELSE [type |-> String,
             name |-> toCamelCase(sanitizeIdentifier(raw, fieldFallback(index)))]

(* ------------------------------- entities ------------------------------ *)

\* a field declaration of a generated class: the annotation that heads it,
\* the declared identifier, the (element) type, whether it is declared as
\* Set<type>, and the annotation arguments; <<>> stands for an argument
\* the template does not write
NoArg == <<>>

Field(annotation, name, type, collection, mappedBy, joinColumn, joinTable, inverseJoinColumn) ==
    [annotation |-> annotation, name |-> name, type |-> type,
     collection |-> collection, mappedBy |-> mappedBy,
     joinColumn |-> joinColumn, joinTable |-> joinTable,
     inverseJoinColumn |-> inverseJoinColumn]

id == <<"i","d">>

Long == <<"L","o","n","g">>

IdField == Field("Id", id, Long, FALSE, NoArg, NoArg, NoArg, NoArg)

ColumnField(type, name) ==
    Field("Column", name, type, FALSE, NoArg, toLowerCase(name), NoArg, NoArg)

joinColumnName(otherClass) == toCamelCase(otherClass) \o <<"_","i","d">>

\* the name generateFields looks up and reserves in usedFieldNames for
\* relation r seen from one of its ends
relationFieldName(r, isSource, otherVar, collNameFromOther) ==
    IF isSource THEN otherVar
    ELSE IF r.type \in {"ONE_TO_MANY", "MANY_TO_MANY"} THEN collNameFromOther
    ELSE otherVar

\* the switch (r.type) of generateFields: the declarations pushed to lines
relationLines(r, className, isSource) ==
    LET otherClass == IF isSource THEN r.target ELSE r.source
        thisVar == toCamelCase(className)
        otherVar == toCamelCase(otherClass)
        collNameFromOther == toPlural(otherVar)
    IN CASE r.type = "ONE_TO_ONE" ->
              IF isSource
              THEN <<Field("OneToOne", otherVar, otherClass, FALSE, NoArg,
                           joinColumnName(otherClass), NoArg, NoArg)>>
              ELSE IF r.bidirectional
              THEN <<Field("OneToOne", otherVar, otherClass, FALSE, otherVar,
                           NoArg, NoArg, NoArg)>>
              ELSE <<>>
         [] r.type = "MANY_TO_ONE" ->
              IF isSource
              THEN <<Field("ManyToOne", otherVar, otherClass, FALSE, NoArg,
                           joinColumnName(otherClass), NoArg, NoArg)>>
              ELSE IF r.bidirectional
              THEN <<Field("OneToMany", collNameFromOther, otherClass, TRUE,
                           toCamelCase(className), NoArg, NoArg, NoArg)>>
              ELSE <<>>
         [] r.type = "ONE_TO_MANY" ->
              IF isSource
              THEN <<Field("OneToMany", toPlural(otherVar), otherClass, TRUE,
                           thisVar, NoArg, NoArg, NoArg)>>
              ELSE <<Field("ManyToOne", otherVar, otherClass, FALSE, NoArg,
                           joinColumnName(otherClass), NoArg, NoArg)>>
         [] r.type = "MANY_TO_MANY" ->
              IF isSource
              THEN <<Field("ManyToMany", toPlural(otherVar), otherClass, TRUE, NoArg,
                           joinColumnName(className),
                           toLowerCase(className) \o <<"_">> \o toLowerCase(otherClass),
                           joinColumnName(otherClass))>>
              ELSE IF r.bidirectional
              THEN <<Field("ManyToMany", toPlural(otherVar), otherClass, TRUE,
                           toPlural(toCamelCase(otherClass)), NoArg, NoArg, NoArg)>>
              ELSE <<>>
         [] OTHER -> <<>>

\* cls.attributes.forEach of generateFields, from attribute i on; acc is
\* [lines, usedFieldNames]
RECURSIVE attributeFields(_, _, _)
attributeFields(attributes, i, acc) ==
    IF i > Len(attributes) THEN acc
    ELSE LET p == parseAttribute(attributes[i], i - 1)
         IN attributeFields(attributes, i + 1,
                IF p.name \notin acc.usedFieldNames /\ toLowerCase(p.name) # id
                THEN [lines |-> Append(acc.lines, ColumnField(p.type, p.name)),
                      usedFieldNames |-> acc.usedFieldNames \cup {p.name}]
                ELSE acc)

\* this.relations.filter(...).forEach(...) of generateFields, from relation i on
RECURSIVE relationFields(_, _, _, _)
relationFields(className, rels, i, acc) ==
    IF i > Len(rels) THEN acc
    ELSE LET r == rels[i]
             isSource == r.source = className
             otherClass == IF isSource THEN r.target ELSE r.source
             otherVar == toCamelCase(otherClass)
             collNameFromOther == toPlural(otherVar)
             name == relationFieldName(r, isSource, otherVar, collNameFromOther)
         IN relationFields(className, rels, i + 1,
                IF ~(r.source = className \/ r.target = className) THEN acc
                ELSE IF name \in acc.usedFieldNames THEN acc
                ELSE [lines |-> acc.lines \o relationLines(r, className, isSource),
                      usedFieldNames |-> acc.usedFieldNames \cup {name}])

\* the field declarations generateFields writes for cls, in order, given
\* this.relations = rels
generateFields(cls, rels) ==
    relationFields(cls.name, rels, 1,
        attributeFields(cls.attributes, 1, [lines |-> <<>>, usedFieldNames |-> {id}])).lines

generateClass(cls, rels, pkg) ==
    LET className == toPascal(cls.name)
    IN [package |-> <<pkg, "model">>,
        className |-> className,
        table |-> toPlural(toLowerCase(className)),
        fields |-> <<IdField>> \o generateFields(cls, rels)]

(* ------------------------ the other four emitters ---------------------- *)

typeImports ==
    { <<"B","i","g","D","e","c","i","m","a","l">>,
      <<"L","o","c","a","l","D","a","t","e">>,
      <<"L","o","c","a","l","D","a","t","e","T","i","m","e">>,
      <<"U","U","I","D">> }

\* a loop over the attributes that does not look up the names already used
RECURSIVE dtoFields_repeating(_, _, _)
dtoFields_repeating(attributes, i, acc) ==
    IF i > Len(attributes) THEN acc
    ELSE LET p == parseAttribute(attributes[i], i - 1)
         IN dtoFields_repeating(attributes, i + 1,
                IF toLowerCase(p.name) # id
                THEN [lines |-> Append(acc.lines, [type |-> p.type, name |-> p.name]),
                      usedFieldNames |-> acc.usedFieldNames \cup {p.name}]
                ELSE acc)

\* cls.attributes.forEach of generateDTO, from attribute i on
RECURSIVE dtoFields(_, _, _)
dtoFields(attributes, i, acc) ==
    IF i > Len(attributes) THEN acc
    ELSE LET p == parseAttribute(attributes[i], i - 1)
         IN dtoFields(attributes, i + 1,
                IF p.name \notin acc.usedFieldNames /\ toLowerCase(p.name) # id
                THEN [lines |-> Append(acc.lines, [type |-> p.type, name |-> p.name]),
                      usedFieldNames |-> acc.usedFieldNames \cup {p.name}]
                ELSE acc)

DTOSuffix == <<"D","T","O">>

generateDTO(cls, pkg) ==
    LET className == toPascal(cls.name)
        fieldDefinitions ==
            dtoFields(cls.attributes, 1, [lines |-> <<>>, usedFieldNames |-> {id}]).lines
    IN [package |-> <<pkg, "dto">>,
        className |-> className \o DTOSuffix,
        imports |-> {fieldDefinitions[i].type : i \in 1..Len(fieldDefinitions)}
                        \cap typeImports,
        fields |-> <<[type |-> Long, name |-> id]>> \o fieldDefinitions]

RepositorySuffix == <<"R","e","p","o","s","i","t","o","r","y">>

ServiceSuffix == <<"S","e","r","v","i","c","e">>

ControllerSuffix == <<"C","o","n","t","r","o","l","l","e","r">>

\* a reference `import ${packageName}.<sub>.<name>`
Import(pkg, sub, name) == [package |-> <<pkg, sub>>, name |-> name]

generateRepository(cls, pkg) ==
    LET className == toPascal(cls.name)
    IN [package |-> <<pkg, "repository">>,
        className |-> className \o RepositorySuffix,
        imports |-> {Import(pkg, "model", className)}]

generateService(cls, pkg) ==
    LET className == toPascal(cls.name)
    IN [package |-> <<pkg, "service">>,
        className |-> className \o ServiceSuffix,
        imports |-> {Import(pkg, "dto", className \o DTOSuffix),
                     Import(pkg, "model", className),
                     Import(pkg, "repository", className \o RepositorySuffix)}]

generateController(cls, pkg) ==
    LET className == toPascal(cls.name)
    IN [package |-> <<pkg, "controller">>,
        className |-> className \o ControllerSuffix,
        basePath |-> <<"/","a","p","i","/">> \o toPlural(toCamelCase(className)),
        imports |-> {Import(pkg, "dto", className \o DTOSuffix),
                     Import(pkg, "service", className \o ServiceSuffix)}]

(* --------------------------- API collection ---------------------------- *)

samplePrefix == <<"s","a","m","p","l","e","_">>

\* the JSON text JSON.stringify writes for data[name]
sampleValue(type, name) ==
    CASE type = String -> <<"\"">> \o samplePrefix \o name \o <<"\"">>
      [] type \in {<<"I","n","t","e","g","e","r">>, Long} -> <<"1">>
      [] type \in {<<"D","o","u","b","l","e">>, <<"F","l","o","a","t">>} -> <<"1">>
      [] type = <<"B","o","o","l","e","a","n">> -> <<"t","r","u","e">>
      [] OTHER -> <<"\"">> \o samplePrefix \o name \o <<"\"">>

\* cls.attributes.forEach of generateSampleRequestBody, from attribute i on:
\* data is the set of <<key, value>> members of the object
RECURSIVE sampleData(_, _, _)
sampleData(attributes, i, data) ==
    IF i > Len(attributes) THEN data
    ELSE LET p == parseAttribute(attributes[i], i - 1)
         IN sampleData(attributes, i + 1,
                {m \in data : m[1] # p.name} \cup {<<p.name, sampleValue(p.type, p.name)>>})

generateSampleRequestBody(cls) == sampleData(cls.attributes, 1, {})

generatePostmanCollection(clss) ==
    [i \in 1..Len(clss) |->
        LET className == toPascal(clss[i].name)
        IN [name |-> className \o <<" ","C","R","U","D">>,
            endpoint |-> toPlural(toCamelCase(className)),
            body |-> generateSampleRequestBody(clss[i])]]

\* now is the value of Date.now()
generatePostmanEnvironment(now) == [id |-> <<now, "-env">>, name |-> "Generated Environment"]

(* ------------------------------ generateAll ---------------------------- *)

JavaDir ==
    <<"s","r","c","/","m","a","i","n","/","j","a","v","a","/","c","o","m","/","e","x","a","m","p","l","e","/">>

\* a path that leaves the class name out
Key_flat(dir, className, suffix) == dir \o suffix

\* a key of the result: the path `${dir}${className}${suffix}`
Key(dir, className, suffix) == dir \o className \o suffix

pomKey == <<"p","o","m",".","x","m","l">>

propertiesKey ==
    <<"s","r","c","/","m","a","i","n","/","r","e","s","o","u","r","c","e","s","/","a","p","p","l","i","c","a","t","i","o","n",".","p","r","o","p","e","r","t","i","e","s">>

applicationKey == JavaDir \o <<"A","p","p","l","i","c","a","t","i","o","n",".","j","a","v","a">>

configKey == JavaDir \o
    <<"c","o","n","f","i","g","/","M","o","d","e","l","M","a","p","p","e","r","C","o","n","f","i","g",".","j","a","v","a">>

collectionKey ==
    <<"p","o","s","t","m","a","n","-","c","o","l","l","e","c","t","i","o","n",".","j","s","o","n">>

environmentKey ==
    <<"p","o","s","t","m","a","n","-","e","n","v","i","r","o","n","m","e","n","t",".","j","s","o","n">>

Assignment(key, content) == [key |-> key, content |-> content]

\* the four assignments to result before the classes
scaffoldAssignments ==
    << Assignment(pomKey, [groupId |-> "com.example"]),
       Assignment(propertiesKey, [logging |-> "com.example"]),
       Assignment(applicationKey, [package |-> <<"com.example">>]),
       Assignment(configKey, [package |-> <<"com.example", "config">>]) >>

\* the five assignments to result of one turn of this.classes.forEach
classAssignments(cls, rels, pkg) ==
    LET className == toPascal(cls.name)
    IN << Assignment(Key(JavaDir \o <<"m","o","d","e","l","/">>, className, <<".","j","a","v","a">>),
                     generateClass(cls, rels, pkg)),
          Assignment(Key(JavaDir \o <<"d","t","o","/">>, className, <<"D","T","O",".","j","a","v","a">>),
                     generateDTO(cls, pkg)),
          Assignment(Key(JavaDir \o <<"r","e","p","o","s","i","t","o","r","y","/">>, className,
                         <<"R","e","p","o","s","i","t","o","r","y",".","j","a","v","a">>),
                     generateRepository(cls, pkg)),
          Assignment(Key(JavaDir \o <<"s","e","r","v","i","c","e","/">>, className,
                         <<"S","e","r","v","i","c","e",".","j","a","v","a">>),
                     generateService(cls, pkg)),
          Assignment(Key(JavaDir \o <<"c","o","n","t","r","o","l","l","e","r","/">>, className,
                         <<"C","o","n","t","r","o","l","l","e","r",".","j","a","v","a">>),
                     generateController(cls, pkg)) >>

\* every assignment result[key] = content of generateAll, in order
RECURSIVE assignments(_, _, _, _, _)
assignments(clss, i, rels, pkg, now) ==
    IF i = 0 THEN scaffoldAssignments \o assignments(clss, 1, rels, pkg, now)
    ELSE IF i <= Len(clss)
         THEN classAssignments(clss[i], rels, pkg) \o assignments(clss, i + 1, rels, pkg, now)
    ELSE << Assignment(collectionKey, generatePostmanCollection(clss)),
            Assignment(environmentKey, generatePostmanEnvironment(now)) >>

\* the assignment that decides result[k]: a later assignment to a key
\* replaces the earlier one
lastAssignment(a, k) ==
    CHOOSE i \in 1..Len(a) : a[i].key = k /\ \A j \in (i + 1)..Len(a) : a[j].key # k

\* the object that the assignments a build
resultOf(a) == [k \in {a[i].key : i \in 1..Len(a)} |-> a[lastAssignment(a, k)].content]

generateAll(clss, rels, pkg, now) == resultOf(assignments(clss, 0, rels, pkg, now))

(* ------------------------------ the inputs ----------------------------- *)

MaxClasses == 2

MaxRelations == 2

MaxAttributes == 1

MaxTime == 2

ClassNames == { <<"A">>, <<"B">> }

\* one line of each accepted form: "b", "bs: int", "String a"
AttributeLines ==
    { <<"b">>,
      <<"b","s",":"," ","i","n","t">>,
      <<"S","t","r","i","n","g"," ","a">> }

RECURSIVE SeqsUpTo(_, _)
SeqsUpTo(S, n) ==
    IF n = 0 THEN {<<>>}
    ELSE LET shorter == SeqsUpTo(S, n - 1)
         IN shorter \cup {Append(q, x) : q \in shorter, x \in S}

ClassDefinitions ==
    [name : ClassNames, attributes : SeqsUpTo(AttributeLines, MaxAttributes),
     methods : {<<>>}]

RelationTypes == {"ONE_TO_ONE", "ONE_TO_MANY", "MANY_TO_ONE", "MANY_TO_MANY"}

\* <<source, target>>: a relation between two classes and a self-relation
RelationEnds == { <<<<"A">>, <<"B">>>>, <<<<"A">>, <<"A">>>> }

RelationDefinitions ==
    { [source |-> e[1], target |-> e[2], type |-> t, bidirectional |-> b] :
        e \in RelationEnds, t \in RelationTypes, b \in BOOLEAN }

DefaultPackage == "com.example"

PackageNames == {DefaultPackage, "org.acme"}

(* --------------------------- the state machine ------------------------- *)

\* ret is what the last call on the generator returned: the generator itself
\* for new, undefined for addClass and addRelation, the file map for generateAll
Returned(call, value) == [call |-> call, value |-> value]

\* a generator object: its three fields and what the last call on it returned
Generator(clss, rels, pkg, returned) ==
    [classes |-> clss, relations |-> rels, packageName |-> pkg, ret |-> returned]

\* new JavaSpringGenerator(pkg)
New(pkg) == Generator(<<>>, <<>>, pkg, Returned("new", <<>>))

\* no private method is under call
Idle == [fn |-> "none"]

\* the generated application is not running: its table is empty, the next
\* identity value is 1, and no request was answered
EmptyTable == [rows |-> {}, next |-> 1]

NoRequest == [method |-> "none"]

NoApplication ==
    /\ repository = EmptyTable
    /\ response = NoRequest

\* the diagram page has no graph, and no export was asked for
NullGraph == [null |-> TRUE]

NoPage ==
    /\ graph = NullGraph
    /\ toasts = <<>>
    /\ downloads = <<>>
    /\ exports = <<>>
    /\ NoApplication

\* new JavaSpringGenerator(), twice: the generator of the variables classes,
\* relations, packageName and ret, and a second one in other
Init ==
    /\ classes = New(DefaultPackage).classes
    /\ relations = New(DefaultPackage).relations
    /\ packageName = New(DefaultPackage).packageName
    /\ ret = New(DefaultPackage).ret
    /\ other = New(DefaultPackage)
    /\ arg = Idle
    /\ NoPage

addClass(cls) ==
    /\ Len(classes) < MaxClasses
    /\ classes' = Append(classes, cls)
    /\ ret' = Returned("undefined", <<>>)
    /\ UNCHANGED <<relations, packageName, other, arg, graph, toasts, downloads, exports, repository, response>>

addRelation(relation) ==
    /\ Len(relations) < MaxRelations
    /\ relations' = Append(relations, relation)
    /\ ret' = Returned("undefined", <<>>)
    /\ UNCHANGED <<classes, packageName, other, arg, graph, toasts, downloads, exports, repository, response>>

\* a generateAll that empties the relation list it has walked through
GenerateAll_draining(now) ==
    /\ ret' = Returned("generateAll", generateAll(classes, relations, packageName, now))
    /\ relations' = <<>>
    /\ UNCHANGED <<classes, packageName, other, arg, graph, toasts, downloads, exports, repository, response>>

GenerateAll(now) ==
    /\ ret' = Returned("generateAll", generateAll(classes, relations, packageName, now))
    /\ UNCHANGED <<classes, relations, packageName, other, arg, graph, toasts, downloads, exports, repository, response>>

Next ==
    \/ \E cls \in ClassDefinitions : addClass(cls)
    \/ \E relation \in RelationDefinitions : addRelation(relation)
    \/ \E now \in 1..MaxTime : GenerateAll(now)

Spec == Init /\ [][Next]_vars

(* ------------- class names, the identifier and the package ------------ *)

\* classes whose names differ only in the case of the first letter, a class
\* named Id, the attribute line "ID", and the three lines "bs: int", "bs" and
\* "String a", two of which give the same identifier
NamedClassDefinitions ==
    { [name |-> <<"A">>, attributes |-> <<>>, methods |-> <<>>],
      [name |-> <<"a">>, attributes |-> << <<"I","D">> >>, methods |-> <<>>],
      [name |-> <<"I","d">>, attributes |-> <<>>, methods |-> <<>>],
      [name |-> <<"A">>,
       attributes |-> << <<"b","s",":"," ","i","n","t">>, <<"b","s">>,
                         <<"S","t","r","i","n","g"," ","a">> >>,
       methods |-> <<>>] }

NamedRelationDefinitions ==
    { [source |-> <<"I","d">>, target |-> <<"A">>, type |-> "ONE_TO_MANY",
       bidirectional |-> TRUE],
      [source |-> <<"A">>, target |-> <<"I","d">>, type |-> "ONE_TO_ONE",
       bidirectional |-> FALSE],
      [source |-> <<"a">>, target |-> <<"A">>, type |-> "MANY_TO_ONE",
       bidirectional |-> FALSE] }

\* new JavaSpringGenerator(pkg) for a package name of the caller's choice
InitNames ==
    /\ \E pkg \in PackageNames :
          /\ classes = New(pkg).classes
          /\ relations = New(pkg).relations
          /\ packageName = New(pkg).packageName
          /\ ret = New(pkg).ret
    /\ other = New(DefaultPackage)
    /\ arg = Idle
    /\ NoPage

NextNames ==
    \/ \E cls \in NamedClassDefinitions : addClass(cls)
    \/ \E relation \in NamedRelationDefinitions : addRelation(relation)
    \/ \E now \in 1..MaxTime : GenerateAll(now)

SpecNames == InitNames /\ [][NextNames]_vars

(* ------------------- the type resolver and the parser ------------------ *)

MaxIndex == 1

\* type tokens: every key of typeMap, every key an object literal inherits,
\* and tokens that are no key: "", "Foo", "INT", "varchar", "char", " int "
TypeTokens ==
    {e[1] : e \in typeMap} \cup ObjectPrototypeKeys \cup
    { <<>>, <<"F","o","o">>, <<"I","N","T">>, <<"v","a","r","c","h","a","r">>,
      <<"c","h","a","r">>, <<" ","i","n","t"," ">> }

\* first tokens of a line: int, long, void, String, Date, UUID, BigDecimal,
\* Foo, and foo and x1, which are not type-like
FirstTokens ==
    { <<"i","n","t">>, <<"l","o","n","g">>, <<"v","o","i","d">>,
      <<"S","t","r","i","n","g">>, <<"D","a","t","e">>, <<"U","U","I","D">>,
      <<"B","i","g","D","e","c","i","m","a","l">>, <<"F","o","o">>,
      <<"f","o","o">>, <<"x","1">> }

\* second tokens of a line: x, Name, class, 1a, a-b
NameTokens ==
    { <<"x">>, <<"N","a","m","e">>, <<"c","l","a","s","s">>, <<"1","a">>,
      <<"a","-","b">> }

Separators == { <<" ">>, <<" "," ">>, <<"\t">> }

TwoTokenLines == {t1 \o ws \o t2 : t1 \in FirstTokens, ws \in Separators, t2 \in NameTokens}

\* lines "name:type" and "name: type"
ColonLines ==
    {n \o c \o t :
        n \in {<<>>, <<"x">>, <<"N","a","m","e">>, <<" ","a"," ","b"," ">>},
        c \in {<<":">>, <<":"," ">>},
        t \in {<<>>, <<"i","n","t">>, <<"D","a","t","e"," ">>, <<"F","o","o">>,
               <<"c","o","n","s","t","r","u","c","t","o","r">>}}

\* empty and whitespace-only lines, one token, three tokens
OtherLines ==
    { <<>>, <<" ">>, <<" ","\t"," ">>, <<"x">>, <<"I","d">>,
      <<"i","n","t"," ","x"," ","y">> }

Lines == TwoTokenLines \cup ColonLines \cup OtherLines

\* raw names: "", " ", x, Name, 1a, a-b, "a b", " x ", $a, _, a name that is
\* one letter outside ASCII, and names that start with a digit outside ASCII
RawNames ==
    { <<>>, <<" ">>, <<"x">>, <<"N","a","m","e">>, <<"1","a">>, <<"a","-","b">>,
      <<"a"," ","b">>, <<" ","x"," ">>, <<"$","a">>, <<"_">>, <<"U+00DF">>,
      <<"U+0663","x">>, <<"U+0663">> }

\* the fallbacks the callers pass: field_<n>, Clase_<n>, Source
Fallbacks ==
    { <<"f","i","e","l","d","_","1">>, <<"C","l","a","s","e","_","1">>,
      <<"S","o","u","r","c","e">> }

\* words to put in the plural: one for each ending, and words that meet two
\* rules at once
Words ==
    { <<"c","l","a","s","s">>, <<"c","a","t","e","g","o","r","y">>, <<"l","e","a","f">>,
      <<"u","s","e","r">>, <<"d","i","s","h">>, <<"m","a","t","c","h">>, <<"b","o","x">>,
      <<"q","u","i","z">>, <<"d","a","y">>, <<"k","n","i","f","e">>, <<"y">>,
      <<"b","u","s","y">>, <<"s","t","a","f","f">>, <<"a">>, <<"b">>,
      <<"x","_","y">>, <<"x","1","y">>, <<"d","A","y">>, <<" ","b","s"," ">> }

\* type tokens for each canonical type the sample body tells apart:
\* <<token, canonical type>>
SampleTypes ==
    { << <<"s","t","r","i","n","g">>, <<"S","t","r","i","n","g">> >>,
      << <<"i","n","t">>, <<"I","n","t","e","g","e","r">> >>,
      << <<"l","o","n","g">>, <<"L","o","n","g">> >>,
      << <<"d","o","u","b","l","e">>, <<"D","o","u","b","l","e">> >>,
      << <<"f","l","o","a","t">>, <<"F","l","o","a","t">> >>,
      << <<"d","e","c","i","m","a","l">>, <<"B","i","g","D","e","c","i","m","a","l">> >>,
      << <<"m","o","n","e","y">>, <<"B","i","g","D","e","c","i","m","a","l">> >>,
      << <<"b","o","o","l">>, <<"B","o","o","l","e","a","n">> >> }

\* the attribute line "v: <token>"
TypedLine(token) == <<"v",":"," ">> \o token

\* classes with one typed attribute v, and with a second attribute w
SampleClasses ==
    {[name |-> <<"A">>, attributes |-> <<TypedLine(st[1])>>, methods |-> <<>>] :
        st \in SampleTypes}
    \cup {[name |-> <<"A">>, attributes |-> <<TypedLine(st[1]), <<"w">>>>, methods |-> <<>>] :
             st \in SampleTypes}

\* the calls of the private methods: the method and its arguments
Calls ==
    {[fn |-> "mapToJavaType", type |-> t] : t \in TypeTokens}
        \cup {[fn |-> "parseAttribute", line |-> l, index |-> i] :
                 l \in Lines, i \in 0..MaxIndex}
        \cup {[fn |-> f, raw |-> r, fallback |-> fb] :
                 f \in {"sanitizeIdentifier", "pageSanitizeIdentifier"},
                 r \in RawNames, fb \in Fallbacks}
        \cup {[fn |-> "toPlural", str |-> w] : w \in Words}
        \cup {[fn |-> "generateSampleRequestBody", cls |-> c] : c \in SampleClasses}

\* a generator on which one of the calls is about to be made
InitParse ==
    /\ classes = New(DefaultPackage).classes
    /\ relations = New(DefaultPackage).relations
    /\ packageName = New(DefaultPackage).packageName
    /\ ret = New(DefaultPackage).ret
    /\ other = New(DefaultPackage)
    /\ arg \in Calls
    /\ NoPage

MapToJavaType ==
    /\ arg.fn = "mapToJavaType"
    /\ ret.call = "new"
    /\ ret' = Returned("mapToJavaType", mapToJavaType(arg.type))
    /\ UNCHANGED <<classes, relations, packageName, other, arg, graph, toasts, downloads, exports, repository, response>>

ParseAttribute ==
    /\ arg.fn = "parseAttribute"
    /\ ret.call = "new"
    /\ ret' = Returned("parseAttribute", parseAttribute(arg.line, arg.index))
    /\ UNCHANGED <<classes, relations, packageName, other, arg, graph, toasts, downloads, exports, repository, response>>

SanitizeIdentifier ==
    /\ arg.fn = "sanitizeIdentifier"
    /\ ret.call = "new"
    /\ ret' = Returned("sanitizeIdentifier", sanitizeIdentifier(arg.raw, arg.fallback))
    /\ UNCHANGED <<classes, relations, packageName, other, arg, graph, toasts, downloads, exports, repository, response>>

PageSanitizeIdentifier ==
    /\ arg.fn = "pageSanitizeIdentifier"
    /\ ret.call = "new"
    /\ ret' = Returned("pageSanitizeIdentifier",
                       pageSanitizeIdentifier(arg.raw, arg.fallback))
    /\ UNCHANGED <<classes, relations, packageName, other, arg, graph, toasts, downloads, exports, repository, response>>

ToPlural ==
    /\ arg.fn = "toPlural"
    /\ ret.call = "new"
    /\ ret' = Returned("toPlural", toPlural(arg.str))
    /\ UNCHANGED <<classes, relations, packageName, other, arg, graph, toasts, downloads, exports, repository, response>>

GenerateSampleRequestBody ==
    /\ arg.fn = "generateSampleRequestBody"
    /\ ret.call = "new"
    /\ ret' = Returned("generateSampleRequestBody", generateSampleRequestBody(arg.cls))
    /\ UNCHANGED <<classes, relations, packageName, other, arg, graph, toasts, downloads, exports, repository, response>>

NextParse ==
    \/ GenerateSampleRequestBody
    \/ MapToJavaType
    \/ ParseAttribute
    \/ SanitizeIdentifier
    \/ PageSanitizeIdentifier
    \/ ToPlural

SpecParse == InitParse /\ [][NextParse]_vars

(* ----------------------------- two generators -------------------------- *)

\* the definitions two export requests hand to their generators
SharedClassDefinitions ==
    { [name |-> <<"A">>, attributes |-> << <<"b","s",":"," ","i","n","t">> >>,
       methods |-> <<>>] }

SharedRelationDefinitions ==
    { [source |-> <<"A">>, target |-> <<"A">>, type |-> "ONE_TO_MANY",
       bidirectional |-> TRUE] }

\* an addClass on a class list that all generators share (a static field)
otherAddClass_shared(cls) ==
    /\ Len(other.classes) < MaxClasses
    /\ Len(classes) < MaxClasses
    /\ other' = Generator(Append(other.classes, cls), other.relations,
                          other.packageName, Returned("undefined", <<>>))
    /\ classes' = Append(classes, cls)
    /\ UNCHANGED <<relations, packageName, ret, arg, graph, toasts, downloads, exports, repository, response>>

otherAddClass(cls) ==
    /\ Len(other.classes) < MaxClasses
    /\ other' = Generator(Append(other.classes, cls), other.relations,
                          other.packageName, Returned("undefined", <<>>))
    /\ UNCHANGED <<classes, relations, packageName, ret, arg,
                   graph, toasts, downloads, exports, repository, response>>

otherAddRelation(relation) ==
    /\ Len(other.relations) < MaxRelations
    /\ other' = Generator(other.classes, Append(other.relations, relation),
                          other.packageName, Returned("undefined", <<>>))
    /\ UNCHANGED <<classes, relations, packageName, ret, arg,
                   graph, toasts, downloads, exports, repository, response>>

otherGenerateAll(now) ==
    /\ other' = Generator(other.classes, other.relations, other.packageName,
                          Returned("generateAll",
                                   generateAll(other.classes, other.relations,
                                               other.packageName, now)))
    /\ UNCHANGED <<classes, relations, packageName, ret, arg,
                   graph, toasts, downloads, exports, repository, response>>

NextTwo ==
    \/ \E cls \in SharedClassDefinitions : addClass(cls)
    \/ \E relation \in SharedRelationDefinitions : addRelation(relation)
    \/ \E now \in 1..MaxTime : GenerateAll(now)
    \/ \E cls \in SharedClassDefinitions : otherAddClass(cls)
    \/ \E relation \in SharedRelationDefinitions : otherAddRelation(relation)
    \/ \E now \in 1..MaxTime : otherGenerateAll(now)

SpecTwo == Init /\ [][NextTwo]_vars

(* --------------------- the export of the diagram page ------------------ *)

MaxExports == 2

\* String.prototype.includes
Includes(str, sub) ==
    \E i \in 0..(Len(str) - Len(sub)) : SubSeq(str, i + 1, i + Len(sub)) = sub

\* line.split(":"): the text before the first ':' and the text between the
\* first and the second ':' (<<>> stands for undefined when there is no ':')
BeforeColon(line) ==
    IF InSeq(line, ":") THEN SubSeq(line, 1, IndexOf(line, ":") - 1) ELSE line

AfterColon(line) ==
    IF InSeq(line, ":")
    THEN BeforeColon(SubSeq(line, IndexOf(line, ":") + 1, Len(line)))
    ELSE <<>>

\* coerceArrayOfLines for an array: the trimmed lines that are not empty
RECURSIVE coerceArrayOfLines(_)
coerceArrayOfLines(value) ==
    IF value = <<>> THEN <<>>
    ELSE (IF Trim(Head(value)) = <<>> THEN <<>> ELSE <<Trim(Head(value))>>)
             \o coerceArrayOfLines(Tail(value))

mapearTipoRelacion(tipo) ==
    CASE tipo = "comp" -> "ONE_TO_ONE"
      [] tipo = "aggr" -> "ONE_TO_MANY"
      [] tipo = "assoc" -> "MANY_TO_MANY"
      [] tipo = "dep" -> "MANY_TO_ONE"
      [] tipo = "inherit" -> "ONE_TO_ONE"
      [] OTHER -> "MANY_TO_ONE"

\* `Clase_${idx + 1}` and `campo_${i + 1}`
claseFallback(idx) == <<"C","l","a","s","e","_">> \o NumberToString(idx + 1)

campoFallback(i) == <<"c","a","m","p","o","_">> \o NumberToString(i + 1)

\* the line `${nombre}: ${tipo}` the page makes of the i-th attribute line
attributeLine(line, i) ==
    LET nombre == pageSanitizeIdentifier(BeforeColon(line), campoFallback(i))
        t == IF InSeq(line, ":") THEN Trim(AfterColon(line)) ELSE String
        tipo == IF t = <<>> THEN String ELSE t
    IN nombre \o <<":"," ">> \o tipo

\* the class definition the page makes of the node at position idx (0-based);
\* the nodes of the model carry no methods
claseOf(nodo, idx) ==
    LET rawName == IF nodo.name # <<>> THEN nodo.name ELSE claseFallback(idx)
        rawAttrs == coerceArrayOfLines(nodo.attributes)
    IN [name |-> pageSanitizeIdentifier(rawName, claseFallback(idx)),
        attributes |-> [i \in 1..Len(rawAttrs) |-> attributeLine(rawAttrs[i], i - 1)],
        methods |-> <<>>]

clasesOf(g) == [k \in 1..Len(g.nodes) |-> claseOf(g.nodes[k], k - 1)]

\* sanitizeIdentifier(cell name, fallback) || fallback
endName(name, fallback) ==
    LET v == pageSanitizeIdentifier(name, fallback)
    IN IF v = <<>> THEN fallback ELSE v

\* the relation the page makes of an edge
relacionOf(g, edge) ==
    [source |-> endName(g.nodes[edge.source].name, <<"S","o","u","r","c","e">>),
     target |-> endName(g.nodes[edge.target].name, <<"T","a","r","g","e","t">>),
     type |-> mapearTipoRelacion(edge.shape),
     bidirectional |-> edge.bidirectional]

relacionesOf(g) == [k \in 1..Len(g.edges) |-> relacionOf(g, g.edges[k])]

\* the folder of the archive that takes a file of the file map
folderOf(filename) ==
    IF EndsWith(filename, <<"D","T","O",".","j","a","v","a">>) THEN <<"d","t","o","/">>
    ELSE IF Includes(filename, RepositorySuffix)
         THEN <<"r","e","p","o","s","i","t","o","r","y","/">>
    ELSE IF Includes(filename, ServiceSuffix) THEN <<"s","e","r","v","i","c","e","/">>
    ELSE IF Includes(filename, ControllerSuffix)
         THEN <<"c","o","n","t","r","o","l","l","e","r","/">>
    ELSE <<"m","o","d","e","l","/">>

\* the zip.file and folder.file calls of the page, in order: the three files
\* of the page itself, then every entry of the file map; a is the sequence of
\* assignments generateAll made
zipAssignments(a) ==
    << Assignment(pomKey, [page |-> "generatePomXml"]),
       Assignment(propertiesKey, [page |-> "generateApplicationProperties"]),
       Assignment(applicationKey, [page |-> "generateApplicationClass"]) >>
    \o [k \in 1..Len(a) |->
           Assignment(JavaDir \o folderOf(a[k].key) \o a[k].key, [text |-> a[k].content])]

\* the entries of the file map in the order of Object.entries: the order of
\* the first assignment to each key, with the last content
RECURSIVE entriesOf(_, _)
entriesOf(a, k) ==
    IF k > Len(a) THEN <<>>
    ELSE (IF \E j \in 1..(k - 1) : a[j].key = a[k].key THEN <<>>
          ELSE <<Assignment(a[k].key, resultOf(a)[a[k].key])>>)
             \o entriesOf(a, k + 1)

\* the archive the page builds from the classes and relations of a graph
archiveOf(clases, relaciones, now) ==
    resultOf(zipAssignments(
        entriesOf(assignments(clases, 0, relaciones, DefaultPackage, now), 1)))

\* the calls of handleGenerateCode that may throw: generateAll, the promise
\* of zip.generateAsync (rejected), and URL.revokeObjectURL after the click
Failings == {"none", "generateAll", "generateAsync", "revokeObjectURL"}

Toast(by, kind, message) == [by |-> by, kind |-> kind, message |-> message]

\* the toast of the catch block
caught(by) == Toast(by, "error", "Error al generar el proyecto")

\* an invocation of handleGenerateCode: where it stands, the call that is
\* going to throw in it, and its locals generator and zip (<<>>: not made)
Export(pc, failing, generator, zip) ==
    [pc |-> pc, failing |-> failing, generator |-> generator, zip |-> zip]

\* a test that lets every list of classes through
noClasses_never(clases) == FALSE

\* !clases.length
noClasses(clases) == Len(clases) = 0

\* handleGenerateCode up to `await zip.generateAsync`: the toast it shows
\* and the record of the invocation
started(g, failing, now, by) ==
    IF g = NullGraph
    THEN [toast |-> <<Toast(by, "error", "Error: No se pudo acceder al diagrama")>>,
          export |-> Export("returned", failing, <<>>, <<>>)]
    ELSE IF noClasses(clasesOf(g))
    THEN [toast |-> <<Toast(by, "error", "No hay clases en el diagrama")>>,
          export |-> Export("returned", failing, <<>>, <<>>)]
    ELSE LET clases == clasesOf(g)
             relaciones == relacionesOf(g)
             loaded == Generator(clases, relaciones, DefaultPackage,
                                 Returned("undefined", <<>>))
         IN IF failing = "generateAll"
            THEN [toast |-> <<caught(by)>>,
                  export |-> Export("caught", failing, <<loaded>>, <<>>)]
            ELSE [toast |-> <<>>,
                  export |->
                      Export("await", failing,
                             <<Generator(clases, relaciones, DefaultPackage,
                                         Returned("generateAll",
                                                  generateAll(clases, relaciones,
                                                              DefaultPackage, now)))>>,
                             <<archiveOf(clases, relaciones, now)>>)]

\* a continuation that clicks the download link before the archive is there
settled_eager(export, by) ==
    [download |-> <<[by |-> by, archive |-> export.zip[1]]>>,
     toast |-> IF export.failing \in {"generateAsync", "revokeObjectURL"}
               THEN caught(by)
               ELSE Toast(by, "success", "¡Proyecto Spring Boot generado exitosamente!"),
     pc |-> IF export.failing = "none" THEN "done" ELSE "caught"]

\* handleGenerateCode from `await zip.generateAsync` on: the download it
\* triggers (none, or one), the toast it shows and where it ends
settled(export, by) ==
    IF export.failing = "generateAsync"
    THEN [download |-> <<>>, toast |-> caught(by), pc |-> "caught"]
    ELSE [download |-> <<[by |-> by, archive |-> export.zip[1]]>>,
          toast |-> IF export.failing = "revokeObjectURL"
                    THEN caught(by)
                    ELSE Toast(by, "success", "¡Proyecto Spring Boot generado exitosamente!"),
          pc |-> IF export.failing = "revokeObjectURL" THEN "caught" ELSE "done"]

\* the user clicks the export button
handleGenerateCode(failing, now) ==
    /\ Len(exports) < MaxExports
    /\ LET by == Len(exports) + 1
           s == started(graph, failing, now, by)
       IN /\ exports' = Append(exports, s.export)
          /\ toasts' = toasts \o s.toast
    /\ UNCHANGED <<classes, relations, packageName, ret, other, arg, graph, downloads,
                   repository, response>>

\* the promise of zip.generateAsync of the invocation by is settled
generateAsyncSettled(by) ==
    /\ exports[by].pc = "await"
    /\ LET s == settled(exports[by], by)
       IN /\ exports' = [exports EXCEPT ![by].pc = s.pc]
          /\ downloads' = downloads \o s.download
          /\ toasts' = Append(toasts, s.toast)
    /\ UNCHANGED <<classes, relations, packageName, ret, other, arg, graph,
                   repository, response>>

Nodo(shape, name, attributes) == [shape |-> shape, name |-> name, attributes |-> attributes]

Edge(source, target, shape, bidirectional) ==
    [source |-> source, target |-> target, shape |-> shape, bidirectional |-> bidirectional]

Graph(nodes, edges) == [nodes |-> nodes, edges |-> edges]

\* the diagrams: none, an empty one, a class with attributes and two
\* classes with names to sanitize, a class without a name and one whose name
\* is a blank beside a named one, and the nodes createManyToManyRelation adds
\* between two classes (the intermediate class and two of the invisible
\* circles, which carry no name)
Graphs ==
    { NullGraph,
      Graph(<<>>, <<>>),
      Graph(<<Nodo("uml-class", <<"A">>,
                   << <<"b","s",":"," ","i","n","t">>, <<" ">>,
                      <<"S","t","r","i","n","g"," ","a">>, <<":","i","n","t">> >>),
              Nodo("uml-class", <<"a"," ","b">>, <<>>),
              Nodo("uml-class", <<"1","x">>, <<>>)>>,
            <<Edge(1, 2, "aggr", FALSE), Edge(3, 2, "comp", FALSE)>>),
      Graph(<<Nodo("uml-class", <<>>, <<>>), Nodo("uml-class", <<" ">>, <<>>),
              Nodo("uml-class", <<"B">>, <<>>)>>,
            <<Edge(1, 3, "assoc", TRUE), Edge(3, 2, "dep", FALSE)>>),
      Graph(<<Nodo("uml-class", <<"A">>, <<>>), Nodo("uml-class", <<"B">>, <<>>),
              Nodo("uml-class", <<"A","B">>, <<>>),
              Nodo("circle", <<>>, <<>>), Nodo("circle", <<>>, <<>>)>>,
            <<Edge(1, 2, "assoc", FALSE), Edge(5, 4, "edge", FALSE)>>) }

InitExport ==
    /\ classes = New(DefaultPackage).classes
    /\ relations = New(DefaultPackage).relations
    /\ packageName = New(DefaultPackage).packageName
    /\ ret = New(DefaultPackage).ret
    /\ other = New(DefaultPackage)
    /\ arg = Idle
    /\ graph \in Graphs
    /\ toasts = <<>>
    /\ downloads = <<>>
    /\ exports = <<>>
    /\ NoApplication

NextExport ==
    \/ \E failing \in Failings, now \in {1, MaxTime} : handleGenerateCode(failing, now)
    \/ \E by \in 1..Len(exports) : generateAsyncSettled(by)

SpecExport == InitExport /\ [][NextExport]_vars

(* ------------------ the generated service and controller --------------- *)

MaxId == 2

\* the bodies of the requests: a DTO with its id (0: none) and its other fields
DTOs == [id : 0..MaxId, value : {"x", "y"}]

\* the call that throws in a request: none, modelMapper.map (a
\* MappingException), repository.save or repository.deleteById (a
\* DataAccessException); all three are RuntimeExceptions
Faults == {"none", "modelMapper", "save", "deleteById"}

\* repository.existsById(id), repository.findById(id).isPresent()
existsById(table, key) == \E row \in table.rows : row.id = key

\* what a call of a service method did: it threw (with the message of the
\* exception) or returned a value, and the table after its transaction, which
\* is rolled back when it threw
Outcome(threw, error, value, table) ==
    [threw |-> threw, error |-> error, value |-> value, table |-> table]

serviceFindById(table, key, fault) ==
    IF ~existsById(table, key) THEN Outcome(TRUE, "not found with id", <<>>, table)
    ELSE IF fault = "modelMapper" THEN Outcome(TRUE, "MappingException", <<>>, table)
    ELSE Outcome(FALSE, "", <<CHOOSE row \in table.rows : row.id = key>>, table)

serviceCreate(table, dto, fault) ==
    IF fault \in {"modelMapper", "save"} THEN Outcome(TRUE, "Error creating", <<>>, table)
    ELSE LET entity == [id |-> table.next, value |-> dto.value]
         IN Outcome(FALSE, "", <<entity>>,
                    [rows |-> table.rows \cup {entity}, next |-> table.next + 1])

serviceUpdate(table, key, dto, fault) ==
    IF ~existsById(table, key) \/ fault \in {"modelMapper", "save"}
    THEN Outcome(TRUE, "Error updating", <<>>, table)
    ELSE LET existing == CHOOSE row \in table.rows : row.id = key
             savedEntity == [id |-> existing.id, value |-> dto.value]
         IN Outcome(FALSE, "", <<savedEntity>>,
                    [table EXCEPT !.rows = (table.rows \ {existing}) \cup {savedEntity}])

serviceDelete(table, key, fault) ==
    IF ~existsById(table, key) \/ fault = "deleteById"
    THEN Outcome(TRUE, "Error deleting", <<>>, table)
    ELSE Outcome(FALSE, "", <<>>,
                 [table EXCEPT !.rows = {row \in table.rows : row.id # key}])

\* the answer to a request, with the request it answers: the method, the id
\* of the path, whether the table held the id, and the call that threw
Response(method, key, present, fault, status, body) ==
    [method |-> method, id |-> key, present |-> present, fault |-> fault,
     status |-> status, body |-> body]

\* GET /{id}
getById(key, fault) ==
    /\ LET o == serviceFindById(repository, key, fault)
       IN /\ repository' = o.table
          /\ response' = Response("GET", key, existsById(repository, key), fault,
                                  IF o.threw THEN 404 ELSE 200, o.value)
    /\ UNCHANGED <<classes, relations, packageName, ret, other, arg,
                   graph, toasts, downloads, exports>>

\* POST, with a body that carries no id; an exception of the service leaves
\* the controller
create(dto, fault) ==
    /\ repository.next <= MaxId
    /\ dto.id = 0
    /\ LET o == serviceCreate(repository, dto, fault)
       IN /\ repository' = o.table
          /\ response' = Response("POST", 0, FALSE, fault,
                                  IF o.threw THEN 500 ELSE 200, o.value)
    /\ UNCHANGED <<classes, relations, packageName, ret, other, arg,
                   graph, toasts, downloads, exports>>

\* PUT /{id}
update(key, dto, fault) ==
    /\ LET o == serviceUpdate(repository, key, dto, fault)
       IN /\ repository' = o.table
          /\ response' = Response("PUT", key, existsById(repository, key), fault,
                                  IF o.threw THEN 404 ELSE 200, o.value)
    /\ UNCHANGED <<classes, relations, packageName, ret, other, arg,
                   graph, toasts, downloads, exports>>

\* DELETE /{id}
delete(key, fault) ==
    /\ LET o == serviceDelete(repository, key, fault)
       IN /\ repository' = o.table
          /\ response' = Response("DELETE", key, existsById(repository, key), fault,
                                  IF o.threw THEN 404 ELSE 204, o.value)
    /\ UNCHANGED <<classes, relations, packageName, ret, other, arg,
                   graph, toasts, downloads, exports>>

NextService ==
    \/ \E key \in 1..MaxId, fault \in Faults : getById(key, fault)
    \/ \E dto \in DTOs, fault \in Faults : create(dto, fault)
    \/ \E key \in 1..MaxId, dto \in DTOs, fault \in Faults : update(key, dto, fault)
    \/ \E key \in 1..MaxId, fault \in Faults : delete(key, fault)

SpecService == Init /\ [][NextService]_vars

(* ------------------------- reading the file map ------------------------ *)

Generated == ret.call = "generateAll"

EntityKey(name) == Key(JavaDir \o <<"m","o","d","e","l","/">>, toPascal(name), <<".","j","a","v","a">>)

\* the entity generated for the class named name
Entity(name) == ret.value[EntityKey(name)]

HasClass(name) == \E i \in 1..Len(classes) : classes[i].name = name

ClassNamed(name) == classes[CHOOSE i \in 1..Len(classes) : classes[i].name = name]

DistinctNames ==
    \A i, j \in 1..Len(classes) : i # j => classes[i].name # classes[j].name

RelationAnnotations == {"OneToOne", "ManyToOne", "OneToMany", "ManyToMany"}

\* the positions of the reference fields of an entity
References(e) == {i \in 1..Len(e.fields) : e.fields[i].annotation \in RelationAnnotations}

AttributeNames(cls) ==
    {parseAttribute(cls.attributes[i], i - 1).name : i \in 1..Len(cls.attributes)}

\* a single relation between two different classes, both added once
SingleRelation(types) ==
    /\ Generated
    /\ DistinctNames
    /\ Len(relations) = 1
    /\ relations[1].type \in types
    /\ relations[1].source # relations[1].target
    /\ HasClass(relations[1].source)
    /\ HasClass(relations[1].target)

\* C1: a single ONE_TO_MANY relation from A to B gives A's entity exactly one
\* collection-of-B field, named pluralize(camel(B)), and B's entity exactly
\* one scalar reference-to-A field, named camel(A), whatever bidirectional is.
C1_OneToManyBothSides ==
    SingleRelation({"ONE_TO_MANY"}) =>
        LET r == relations[1]
            ea == Entity(r.source)
            eb == Entity(r.target)
            collB == {i \in References(ea) :
                         ea.fields[i].collection /\ ea.fields[i].type = r.target}
            refA == {i \in References(eb) :
                         ~eb.fields[i].collection /\ eb.fields[i].type = r.source}
        IN /\ Cardinality(collB) = 1
           /\ \A i \in collB : ea.fields[i].name = toPlural(toCamelCase(r.target))
           /\ Cardinality(refA) = 1
           /\ \A i \in refA : eb.fields[i].name = toCamelCase(r.source)

\* the end of relation r that generateFields plans on the class named name
IsSource(r, name) == r.source = name

OtherEnd(r, name) == IF IsSource(r, name) THEN r.target ELSE r.source

\* C2: a single ONE_TO_ONE or MANY_TO_ONE relation between different classes
\* whose field identifiers collide with nothing gives the source one owning
\* scalar reference to the target; the target gets a field iff the relation is
\* bidirectional: an inverse scalar reference (ONE_TO_ONE) or an inverse
\* collection of the source (MANY_TO_ONE).
C2_OwningAndInverseSides ==
    LET r == relations[1]
        es == Entity(r.source)
        et == Entity(r.target)
        sourceName == toCamelCase(r.target)
        targetName == IF r.type = "ONE_TO_ONE" THEN toCamelCase(r.source)
                      ELSE toPlural(toCamelCase(r.source))
    IN (/\ SingleRelation({"ONE_TO_ONE", "MANY_TO_ONE"})
        /\ sourceName \notin AttributeNames(ClassNamed(r.source)) \cup {id}
        /\ targetName \notin AttributeNames(ClassNamed(r.target)) \cup {id})
       => /\ Cardinality(References(es)) = 1
          /\ \A i \in References(es) :
                /\ es.fields[i].name = sourceName
                /\ es.fields[i].type = r.target
                /\ ~es.fields[i].collection
                /\ es.fields[i].joinColumn # NoArg
                /\ es.fields[i].mappedBy = NoArg
          /\ Cardinality(References(et)) = (IF r.bidirectional THEN 1 ELSE 0)
          /\ \A i \in References(et) :
                /\ et.fields[i].name = targetName
                /\ et.fields[i].type = r.source
                /\ et.fields[i].collection = (r.type = "MANY_TO_ONE")
                /\ et.fields[i].mappedBy # NoArg

\* C3: a single MANY_TO_MANY relation from A to B gives A a collection-of-B
\* field that defines the join table lower(A)_lower(B); B gets a
\* collection-of-A field iff the relation is bidirectional, and B's field
\* never names a join table.
C3_ManyToManyJoinTable ==
    SingleRelation({"MANY_TO_MANY"}) =>
        LET r == relations[1]
            ea == Entity(r.source)
            eb == Entity(r.target)
        IN /\ Cardinality(References(ea)) = 1
           /\ \A i \in References(ea) :
                 /\ ea.fields[i].collection
                 /\ ea.fields[i].type = r.target
                 /\ ea.fields[i].joinTable
                        = toLowerCase(r.source) \o <<"_">> \o toLowerCase(r.target)
           /\ Cardinality(References(eb)) = (IF r.bidirectional THEN 1 ELSE 0)
           /\ \A i \in References(eb) :
                 /\ eb.fields[i].collection
                 /\ eb.fields[i].type = r.source
                 /\ eb.fields[i].joinTable = NoArg

EntityKeys == {EntityKey(classes[i].name) : i \in 1..Len(classes)}

\* the input contract of the generator: class names are distinct and every
\* relation names two supplied classes
WellFormed ==
    /\ DistinctNames
    /\ \A k \in 1..Len(relations) :
          HasClass(relations[k].source) /\ HasClass(relations[k].target)

\* C4: no two fields of a generated entity (id, attribute fields, relation
\* fields) have the same identifier (checked on inputs that keep the input
\* contract).
C4_FieldNamesUnique ==
    (Generated /\ WellFormed) =>
        \A k \in EntityKeys :
            LET fields == ret.value[k].fields
            IN \A i, j \in 1..Len(fields) : i # j => fields[i].name # fields[j].name

\* the field declaration relation r writes on the class named name when it is
\* not skipped (a sequence of length 0 or 1)
WouldEmit(r, name) == relationLines(r, name, IsSource(r, name))

Incident(r, name) == r.source = name \/ r.target = name

\* C5: when a class has a scalar attribute b and one of its relations would
\* emit a reference field b on it, the entity keeps the scalar b and holds no
\* reference field b (checked on inputs that keep the input contract).
C5_AttributeBeatsRelation ==
    (Generated /\ WellFormed) =>
        \A c \in 1..Len(classes), k \in 1..Len(relations) :
            LET cls == classes[c]
                e == Entity(cls.name)
                w == WouldEmit(relations[k], cls.name)
            IN (/\ Incident(relations[k], cls.name)
                /\ w # <<>>
                /\ w[1].name \in AttributeNames(cls)
                /\ toLowerCase(w[1].name) # id)
               => /\ \E i \in 1..Len(e.fields) :
                        e.fields[i].annotation = "Column" /\ e.fields[i].name = w[1].name
                  /\ \A i \in References(e) : e.fields[i].name # w[1].name

\* the relations before the k-th that are planned on the class named name
Earlier(k, name) == {j \in 1..(k - 1) : Incident(relations[j], name)}

\* C6: a relation is skipped on a class only when the identifier of the field
\* it would emit there is taken by id, an attribute or an earlier relation:
\* a relation whose field identifier is free is never dropped.
C6_FreeNameNeverDropped ==
    (Generated /\ WellFormed) =>
        \A c \in 1..Len(classes), k \in 1..Len(relations) :
            LET cls == classes[c]
                e == Entity(cls.name)
                w == WouldEmit(relations[k], cls.name)
            IN (/\ Incident(relations[k], cls.name)
                /\ w # <<>>
                /\ w[1].name \notin AttributeNames(cls) \cup {id}
                /\ \A j \in Earlier(k, cls.name) :
                      LET v == WouldEmit(relations[j], cls.name)
                      IN v = <<>> \/ v[1].name # w[1].name)
               => \E i \in 1..Len(e.fields) : e.fields[i] = w[1]

RemoveAt(seq, k) == SubSeq(seq, 1, k - 1) \o SubSeq(seq, k + 1, Len(seq))

\* C7: a relation that emits nothing on class C (C is the target of a
\* non-bidirectional ONE_TO_ONE, MANY_TO_ONE or MANY_TO_MANY relation) leaves
\* C's fields as they are without that relation, whatever relations follow.
C7_SilentRelationContributesNothing ==
    (Generated /\ WellFormed) =>
        \A c \in 1..Len(classes), k \in 1..Len(relations) :
            LET cls == classes[c]
                r == relations[k]
            IN (/\ r.target = cls.name
                /\ r.source # cls.name
                /\ ~r.bidirectional
                /\ r.type \in {"ONE_TO_ONE", "MANY_TO_ONE", "MANY_TO_MANY"})
               => Entity(cls.name).fields
                      = <<IdField>> \o generateFields(cls, RemoveAt(relations, k))

\* the candidate fields of a class in the order generateFields meets them:
\* id, the attributes in list order, the relations in addRelation order
RECURSIVE RelationCandidates(_, _)
RelationCandidates(name, k) ==
    IF k > Len(relations) THEN <<>>
    ELSE (IF Incident(relations[k], name) THEN WouldEmit(relations[k], name) ELSE <<>>)
             \o RelationCandidates(name, k + 1)

Candidates(cls) ==
    <<IdField>>
        \o [i \in 1..Len(cls.attributes) |->
               LET p == parseAttribute(cls.attributes[i], i - 1)
               IN ColumnField(p.type, p.name)]
        \o RelationCandidates(cls.name, 1)

\* C8: first-seen-wins: of the candidates of a class that have the same
\* identifier, the entity holds the first one, and only that one.
C8_FirstSeenWins ==
    (Generated /\ WellFormed) =>
        \A c \in 1..Len(classes) :
            LET cls == classes[c]
                e == Entity(cls.name)
                cand == Candidates(cls)
            IN \A i, j \in 1..Len(cand) :
                  (/\ i < j
                   /\ cand[i].name = cand[j].name
                   /\ \A h \in 1..(i - 1) : cand[h].name # cand[i].name)
                  => LET kept == {n \in 1..Len(e.fields) : e.fields[n].name = cand[i].name}
                     IN /\ Cardinality(kept) = 1
                        /\ \A n \in kept : e.fields[n] = cand[i]

\* C9: a field written with a mappedBy value names the field that the same
\* relation writes on the class at its other end.
C9_MappedByNamesOwningField ==
    (Generated /\ WellFormed) =>
        \A c \in 1..Len(classes), k \in 1..Len(relations) :
            LET cls == classes[c]
                r == relations[k]
                e == Entity(cls.name)
                w == WouldEmit(r, cls.name)
                o == relationLines(r, OtherEnd(r, cls.name), ~IsSource(r, cls.name))
            IN (/\ Incident(r, cls.name)
                /\ w # <<>>
                /\ w[1].mappedBy # NoArg
                /\ \E i \in 1..Len(e.fields) : e.fields[i] = w[1])
               => /\ o # <<>>
                  /\ o[1].name = w[1].mappedBy

\* C10: a ONE_TO_MANY relation from a class to itself gives that class both
\* the collection field of the source end and the scalar back-reference of
\* the target end.
C10_SelfRelationBothRoles ==
    (/\ Generated
     /\ DistinctNames
     /\ Len(relations) = 1
     /\ relations[1].type = "ONE_TO_MANY"
     /\ relations[1].source = relations[1].target
     /\ HasClass(relations[1].source)
     /\ ClassNamed(relations[1].source).attributes = <<>>)
    => LET name == relations[1].source
           e == Entity(name)
       IN /\ \E i \in References(e) :
                 /\ e.fields[i].collection
                 /\ e.fields[i].type = name
                 /\ e.fields[i].name = toPlural(toCamelCase(name))
          /\ \E i \in References(e) :
                 /\ ~e.fields[i].collection
                 /\ e.fields[i].type = name
                 /\ e.fields[i].name = toCamelCase(name)

\* seq in the order p, a permutation of its positions
Reordered(seq, p) == [i \in 1..Len(seq) |-> seq[p[i]]]

FieldSet(e) == {e.fields[i] : i \in 1..Len(e.fields)}

\* no two candidates of a class have the same field identifier
NoCollidingCandidates ==
    \A c \in 1..Len(classes) :
        LET cand == Candidates(classes[c])
        IN \A i, j \in 1..Len(cand) : i # j => cand[i].name # cand[j].name

\* C11: order independence: when no two candidates on the same class have the
\* same field identifier, every order of the addClass calls and every order of
\* the addRelation calls gives each class the same set of fields.
C11_OrderIndependent ==
    (Generated /\ WellFormed /\ NoCollidingCandidates) =>
        \A p \in Permutations(1..Len(classes)), q \in Permutations(1..Len(relations)) :
            LET files == generateAll(Reordered(classes, p), Reordered(relations, q),
                                     packageName, 1)
            IN \A c \in 1..Len(classes) :
                   FieldSet(files[EntityKey(classes[c].name)])
                       = FieldSet(Entity(classes[c].name))

\* both generators were given the same package name and the same sequence of
\* addClass and addRelation calls
SameCalls ==
    /\ other.classes = classes
    /\ other.relations = relations
    /\ other.packageName = packageName

Undated(files) == [files[environmentKey] EXCEPT !.id = <<"-env">>]

\* two file maps with the same keys and the same content for every key but
\* the id of the environment document
SameButClock(f, g) ==
    /\ DOMAIN f = DOMAIN g
    /\ \A k \in DOMAIN f \ {environmentKey} : f[k] = g[k]
    /\ Undated(f) = Undated(g)

ClockOf(files) == files[environmentKey].id[1]

\* C13: two generators used in interleaved fashion each return the file map
\* they would return when used alone: a call on one generator leaves the
\* fields and the last result of the other as they are, and what generateAll
\* returns is the file map of the generator's own classes, relations and
\* package name (at the clock reading of the call).
C13_GeneratorsIndependent ==
    [][/\ other' # other => UNCHANGED <<classes, relations, packageName, ret>>
       /\ <<classes, relations, packageName, ret>>' # <<classes, relations, packageName, ret>>
             => other' = other
       /\ Generated'
             => ret'.value = generateAll(classes', relations', packageName',
                                         ClockOf(ret'.value))
       /\ other'.ret.call = "generateAll"
             => other'.ret.value = generateAll(other'.classes, other'.relations,
                                               other'.packageName,
                                               ClockOf(other'.ret.value))]_vars

\* both generators have generated, from different classes and relations
C13_Witness ==
    /\ Generated
    /\ other.ret.call = "generateAll"
    /\ Len(classes) >= 1
    /\ Len(other.classes) >= 1
    /\ classes # other.classes
    /\ relations # other.relations
    /\ Len(relations) >= 1

PascalDistinct ==
    \A i, j \in 1..Len(classes) :
        i # j => toPascal(classes[i].name) # toPascal(classes[j].name)

IsPrefix(p, seq) == Len(p) <= Len(seq) /\ SubSeq(seq, 1, Len(p)) = p

\* the five directories of the per-class files
ClassDirectories ==
    { JavaDir \o <<"m","o","d","e","l","/">>,
      JavaDir \o <<"d","t","o","/">>,
      JavaDir \o <<"r","e","p","o","s","i","t","o","r","y","/">>,
      JavaDir \o <<"s","e","r","v","i","c","e","/">>,
      JavaDir \o <<"c","o","n","t","r","o","l","l","e","r","/">> }

\* C14: for n classes whose Pascal-cased names are pairwise different,
\* generateAll returns a map with exactly 6 + 5n keys: the four scaffolding
\* paths, the two API-collection documents and n paths under each of model/,
\* dto/, repository/, service/ and controller/, each class having its own
\* entity path; no key is written twice.
C14_KeyCount ==
    (Generated /\ PascalDistinct) =>
        LET keys == DOMAIN ret.value
            n == Len(classes)
        IN /\ Cardinality(keys) = 6 + 5 * n
           /\ {pomKey, propertiesKey, applicationKey, configKey,
               collectionKey, environmentKey} \subseteq keys
           /\ \A dir \in ClassDirectories :
                  Cardinality({k \in keys : IsPrefix(dir, k)}) = n
           /\ \A c \in 1..n :
                  \E k \in keys :
                      /\ IsPrefix(JavaDir \o <<"m","o","d","e","l","/">>, k)
                      /\ ret.value[k].className = toPascal(classes[c].name)

\* two classes with different Pascal-cased names, one of them lower-case,
\* and a relation between them have been generated
C14_Witness ==
    /\ Generated
    /\ PascalDistinct
    /\ Len(classes) = MaxClasses
    /\ \E c \in 1..Len(classes) : classes[c].name = <<"a">>
    /\ Len(relations) >= 1

DTOKey(name) ==
    Key(JavaDir \o <<"d","t","o","/">>, toPascal(name), <<"D","T","O",".","j","a","v","a">>)

\* the DTO generated for the class named name
DTO(name) == ret.value[DTOKey(name)]

IsScalar(field) == field.annotation = "Column"

Declaration(field) == [type |-> field.type, name |-> field.name]

\* the declarations (type and identifier) of the scalar fields of an entity
ScalarDeclarations(e) ==
    LET scalars == SelectSeq(e.fields, IsScalar)
    IN [i \in 1..Len(scalars) |-> Declaration(scalars[i])]

\* C15: for every class and every set of relations, the DTO has the field id
\* plus exactly the scalar attribute fields of the class's entity, with the
\* same identifiers and the same types, and no field derived from a relation.
C15_DTOMirrorsScalars ==
    Generated =>
        \A c \in 1..Len(classes) :
            LET name == classes[c].name
            IN DTO(name).fields
                   = <<[type |-> Long, name |-> id]>> \o ScalarDeclarations(Entity(name))

\* an entity with two scalar fields and a reference field, whose class has
\* three attribute lines, has been generated together with its DTO
C15_Witness ==
    /\ Generated
    /\ \E c \in 1..Len(classes) :
          LET e == Entity(classes[c].name)
          IN /\ Len(classes[c].attributes) = 3
             /\ References(e) # {}
             /\ Len(ScalarDeclarations(e)) = 2
             /\ Len(DTO(classes[c].name).fields) = 3

\* C16: every generated entity has exactly one field named id, the surrogate
\* Long identifier: no attribute, whatever the casing of its name, and no
\* relation to any class, whatever its name, adds a second field named id
\* (checked on inputs that keep the input contract).
C16_SingleIdField ==
    (Generated /\ WellFormed) =>
        \A c \in 1..Len(classes) :
            LET fields == Entity(classes[c].name).fields
            IN {i \in 1..Len(fields) : fields[i].name = id} = {1} /\ fields[1] = IdField

\* the class names of the entities of the generated project
EntityClassNames == {ret.value[k].className : k \in EntityKeys}

\* C17: every reference field of a generated entity has as its type the
\* class name of an entity generated in the same project: a relation whose
\* source or target matches no supplied class name emits no field that
\* refers to the unknown class.
C17_ReferencesAreEntities ==
    Generated =>
        \A k \in EntityKeys :
            LET e == ret.value[k]
            IN \A i \in References(e) : e.fields[i].type \in EntityClassNames

\* the canonical types
CanonicalTypes ==
    { <<"S","t","r","i","n","g">>, <<"I","n","t","e","g","e","r">>, <<"L","o","n","g">>,
      <<"D","o","u","b","l","e">>, <<"F","l","o","a","t">>,
      <<"B","i","g","D","e","c","i","m","a","l">>, <<"B","o","o","l","e","a","n">>,
      <<"L","o","c","a","l","D","a","t","e">>,
      <<"L","o","c","a","l","D","a","t","e","T","i","m","e">>, <<"U","U","I","D">> }

\* the keys of the synonym table
SynonymKeys == {e[1] : e \in typeMap}

\* C18: mapToJavaType returns, for every input token, one of the canonical
\* type names, and returns String for every token that (trimmed) is not a
\* key of the synonym table.
C18_ResolverIsTotal ==
    ret.call = "mapToJavaType" =>
        /\ ret.value \in CanonicalTypes
        /\ Trim(arg.type) \notin SynonymKeys => ret.value = <<"S","t","r","i","n","g">>

\* letters, digits, underscore and the currency sign only, no digit in front
IsIdentifier(s) ==
    /\ s # <<>>
    /\ \A i \in 1..Len(s) : IsLetter(s[i]) \/ IsNumber(s[i]) \/ s[i] \in {"_", "$"}
    /\ ~IsNumber(s[1])

\* C19: parseAttribute is total: for every line and index it returns a pair
\* whose name is a non-empty sanitized identifier and whose type is a
\* canonical type; an empty or whitespace-only line gives the name
\* field_<index+1> and the type String.
C19_ParserIsTotal ==
    ret.call = "parseAttribute" =>
        /\ DOMAIN ret.value = {"type", "name"}
        /\ IsIdentifier(ret.value.name)
        /\ ret.value.type \in CanonicalTypes
        /\ (\A i \in 1..Len(arg.line) : arg.line[i] \in WhiteSpace) =>
              /\ ret.value.name = <<"f","i","e","l","d","_">> \o NumberToString(arg.index + 1)
              /\ ret.value.type = <<"S","t","r","i","n","g">>

\* a primitive keyword, a known type name or a capitalized identifier
TypeLike(token) ==
    \/ token \in primitives \cup common
    \/ /\ token # <<>>
       /\ InSeq(UpperLetters, token[1])
       /\ \A i \in 1..Len(token) :
              InSeq(LowerLetters, token[i]) \/ InSeq(UpperLetters, token[i])
                  \/ token[i] \in Digits \/ token[i] = "_"

\* C20: for a line without ':' of exactly two whitespace-separated tokens
\* whose first token is type-like, parseAttribute returns the first token
\* as the type and the sanitized second token as the name.
C20_TypeNameForm ==
    \A t1 \in FirstTokens, ws \in Separators, t2 \in NameTokens :
        (ret.call = "parseAttribute" /\ arg.line = t1 \o ws \o t2 /\ TypeLike(t1)) =>
            /\ ret.value.type = t1
            /\ ret.value.name = sanitizeIdentifier(t2, fieldFallback(arg.index))

\* C20 (amended): for such a line parseAttribute returns as the type the
\* canonical type the type resolver gives for the first token (String when
\* the token is no key of the synonym table) and as the name the sanitized
\* second token in camel case (first letter in lower case, Entity appended
\* to a reserved word).
C20_TypeNameFormResolved ==
    \A t1 \in FirstTokens, ws \in Separators, t2 \in NameTokens :
        (ret.call = "parseAttribute" /\ arg.line = t1 \o ws \o t2 /\ TypeLike(t1)) =>
            /\ ret.value.type = mapToJavaType(t1)
            /\ ret.value.name
                   = toCamelCase(sanitizeIdentifier(t2, fieldFallback(arg.index)))

\* the line "Date Name" has been parsed into the type LocalDate and the name name
C20_Witness ==
    /\ ret.call = "parseAttribute"
    /\ arg.line = <<"D","a","t","e"," ","N","a","m","e">>
    /\ ret.value = [type |-> <<"L","o","c","a","l","D","a","t","e">>,
                     name |-> <<"n","a","m","e">>]

\* C21: sanitizeIdentifier (of the generator and of the diagram page) never
\* returns an identifier that starts with a digit, ASCII or not, or that
\* holds a character other than a letter, a digit, underscore or the
\* currency sign, and for an empty or whitespace-only raw input it returns
\* the fallback.
C21_SanitizerIsSafe ==
    ret.call \in {"sanitizeIdentifier", "pageSanitizeIdentifier"} =>
        /\ ret.value # <<>> => ~IsNumber(ret.value[1])
        /\ \A i \in 1..Len(ret.value) :
              IsLetter(ret.value[i]) \/ IsNumber(ret.value[i])
                  \/ ret.value[i] \in {"_", "$"}
        /\ (\A i \in 1..Len(arg.raw) : arg.raw[i] \in WhiteSpace) =>
              ret.value = arg.fallback

\* a letter that is not a vowel, in either case
IsConsonant(c) == IsLetter(c) /\ toLowerCaseChar(c) \notin {"a","e","i","o","u"}

\* any character but the lower-case vowels
IsNoLowerVowel(c) == c \notin {"a","e","i","o","u"}

Last(w, k) == SubSeq(w, Len(w) - k + 1, Len(w))

ButLast(w, k) == SubSeq(w, 1, Len(w) - k)

\* the plural of the word w by the five rules, in their order; beforeY tells
\* whether the character in front of a final y makes the second rule apply
PluralByRules(w, beforeY) ==
    IF Last(w, 1) \in {<<"s">>, <<"x">>, <<"z">>}
          \/ (Len(w) >= 2 /\ Last(w, 2) \in {<<"s","h">>, <<"c","h">>})
    THEN w \o <<"e","s">>
    ELSE IF Len(w) >= 2 /\ Last(w, 1) = <<"y">> /\ beforeY
    THEN ButLast(w, 1) \o <<"i","e","s">>
    ELSE IF Last(w, 1) = <<"f">> THEN ButLast(w, 1) \o <<"v","e","s">>
    ELSE IF Len(w) >= 2 /\ Last(w, 2) = <<"f","e">> THEN ButLast(w, 2) \o <<"v","e","s">>
    ELSE w \o <<"s">>

\* class gives classes, category categories, leaf leaves and user users
PluralExamples ==
    /\ arg.str = <<"c","l","a","s","s">> => ret.value = <<"c","l","a","s","s","e","s">>
    /\ arg.str = <<"c","a","t","e","g","o","r","y">>
          => ret.value = <<"c","a","t","e","g","o","r","i","e","s">>
    /\ arg.str = <<"l","e","a","f">> => ret.value = <<"l","e","a","v","e","s">>
    /\ arg.str = <<"u","s","e","r">> => ret.value = <<"u","s","e","r","s">>

\* C22: toPlural applies its rules in the fixed priority order: ending in s,
\* sh, ch, x or z adds es; ending in consonant+y replaces y with ies; ending
\* in f replaces f with ves; ending in fe replaces fe with ves; otherwise
\* adds s; class gives classes, category categories, leaf leaves, user users.
C22_PluralRules ==
    ret.call = "toPlural" =>
        LET w == Trim(arg.str)
        IN /\ ret.value = PluralByRules(w, Len(w) >= 2 /\ IsConsonant(w[Len(w) - 1]))
           /\ PluralExamples

\* C22 (amended): as above, but the second rule applies to a final y after
\* any character other than a, e, i, o, u: after a consonant, and also after
\* a digit, an underscore or an upper-case vowel.
C22_PluralRulesAnyNonVowel ==
    ret.call = "toPlural" =>
        LET w == Trim(arg.str)
        IN /\ ret.value = PluralByRules(w, Len(w) >= 2 /\ IsNoLowerVowel(w[Len(w) - 1]))
           /\ PluralExamples

\* the word x_y has been put in the plural, which is x_ies
C22_Witness ==
    /\ ret.call = "toPlural"
    /\ arg.str = <<"x","_","y">>
    /\ ret.value = <<"x","_","i","e","s">>

\* the JSON texts that stand for the value the sample body is to give to a
\* field v of a canonical type (a number is the same value with or without
\* a fraction of zero)
SampleTexts(canonical) ==
    CASE canonical = <<"S","t","r","i","n","g">>
           -> { <<"\"","s","a","m","p","l","e","_","v","\"">> }
      [] canonical \in {<<"I","n","t","e","g","e","r">>, <<"L","o","n","g">>}
           -> { <<"1">> }
      [] canonical \in {<<"D","o","u","b","l","e">>, <<"F","l","o","a","t">>,
                        <<"B","i","g","D","e","c","i","m","a","l">>}
           -> { <<"1">>, <<"1",".","0">> }
      [] canonical = <<"B","o","o","l","e","a","n">>
           -> { <<"t","r","u","e">> }

\* C23: in the sample request body each field's value is determined by its
\* canonical type: the text type gives "sample_<field>", Integer and Long
\* give 1, the floating types and the fixed-point decimal type give the
\* number 1.0, and Boolean gives true.
C23_SampleValueByType ==
    ret.call = "generateSampleRequestBody" =>
        \A st \in SampleTypes :
            arg.cls.attributes[1] = TypedLine(st[1]) =>
                \E m \in ret.value : m[1] = <<"v">> /\ m[2] \in SampleTexts(st[2])

\* the sample request body of the c-th class in the API collection
SampleBody(c) == ret.value[collectionKey][c].body

\* C24: the sample request body of a class is derived from its resolved
\* scalar fields: its keys are exactly the scalar attribute fields of the
\* class's DTO and entity (id and dropped duplicates left out), and the value
\* of each key follows the type the entity gives to that field.
C24_SampleBodyFromResolvedFields ==
    (Generated /\ PascalDistinct) =>
        \A c \in 1..Len(classes) :
            LET scalars == ScalarDeclarations(Entity(classes[c].name))
                dto == DTO(classes[c].name).fields
            IN /\ {m[1] : m \in SampleBody(c)} = {scalars[i].name : i \in 1..Len(scalars)}
               /\ {m[1] : m \in SampleBody(c)} = {dto[i].name : i \in 2..Len(dto)}
               /\ \A i \in 1..Len(scalars) :
                      <<scalars[i].name, sampleValue(scalars[i].type, scalars[i].name)>>
                          \in SampleBody(c)

(* ------------------------ claims about the export ----------------------- *)

IsClassNode(nodo) == nodo.shape = "uml-class"

NoClassNodes(g) ==
    /\ g # NullGraph
    /\ \A k \in 1..Len(g.nodes) : ~IsClassNode(g.nodes[k])

ToastOf(t, by) == t.by = by

ToastsBy(by) == SelectSeq(toasts, LAMBDA t : ToastOf(t, by))

DownloadsBy(by) == SelectSeq(downloads, LAMBDA d : ToastOf(d, by))

Packaged(files, archive) ==
    \A k \in DOMAIN files :
        \E path \in DOMAIN archive :
            /\ EndsWith(path, k)
            /\ "text" \in DOMAIN archive[path]
            /\ archive[path].text = files[k]

\* C26: every invocation of handleGenerateCode that has ended showed exactly
\* one notification; the success notification goes with a complete file map,
\* packaged and downloaded; an invocation in which a step threw showed one
\* error notification, and a download it triggered is of the whole archive.
C26_OneNotification ==
    \A by \in 1..Len(exports) :
        LET e == exports[by]
            t == ToastsBy(by)
            d == DownloadsBy(by)
        IN /\ e.pc = "await" => t = <<>> /\ d = <<>>
           /\ e.pc # "await" => Len(t) = 1
           /\ e.pc = "done" <=> (t # <<>> /\ t[1].kind = "success")
           /\ e.pc = "done" => Len(d) = 1
           /\ Len(d) <= 1
           /\ d # <<>> =>
                  /\ e.failing \in {"none", "revokeObjectURL"}
                  /\ e.generator[1].ret.call = "generateAll"
                  /\ d[1].archive = e.zip[1]
                  /\ Packaged(e.generator[1].ret.value, d[1].archive)

C26_Witness ==
    \E by, other_by \in 1..Len(exports) :
        /\ exports[by].pc = "done"
        /\ DownloadsBy(by) # <<>>
        /\ exports[other_by].pc = "caught"
        /\ exports[other_by].failing = "generateAsync"

\* C27: for every edge between two class nodes, the relation given to
\* addRelation names as source and target the names of the class definitions
\* given to addClass for the two nodes.
C27_RelationEndsAreClassNames ==
    \A by \in 1..Len(exports) :
        exports[by].generator # <<>> =>
            \A k \in 1..Len(graph.edges) :
                LET edge == graph.edges[k]
                    g == exports[by].generator[1]
                IN (IsClassNode(graph.nodes[edge.source])
                        /\ IsClassNode(graph.nodes[edge.target])) =>
                       /\ g.relations[k].source = g.classes[edge.source].name
                       /\ g.relations[k].target = g.classes[edge.target].name

(* ------------------ claims about the generated application -------------- *)

\* C28: get, update and delete on an id that the repository does not hold
\* answer 404 with an empty body and leave the repository unchanged, and the
\* controller answers 404 only when the id is absent, never for another
\* failure of the service.
C28_NotFoundOnlyWhenAbsent ==
    [][ response'.method \in {"GET", "PUT", "DELETE"} =>
            /\ ~response'.present =>
                   /\ response'.status = 404
                   /\ response'.body = <<>>
                   /\ repository' = repository
            /\ response'.status = 404 => ~response'.present ]_vars

(* ------------------------- claims about the whole ---------------------- *)

\* C29: the type resolver is idempotent: a canonical type name it returns
\* resolves to itself, and an attribute line "Type name" written with a
\* canonical type name keeps that type.
C29_ResolverIdempotent ==
    /\ (ret.call = "mapToJavaType" /\ ret.value \in CanonicalTypes) =>
           mapToJavaType(ret.value) = ret.value
    /\ (/\ ret.call = "parseAttribute"
        /\ Len(SplitWs(arg.line, <<>>)) = 2
        /\ SplitWs(arg.line, <<>>)[1] \in CanonicalTypes) =>
           ret.value.type = SplitWs(arg.line, <<>>)[1]

\* the directory names of the package names of the model
PathOf(n) ==
    CASE n = "com.example" -> <<"c","o","m","/","e","x","a","m","p","l","e","/">>
      [] n = "org.acme" -> <<"o","r","g","/","a","c","m","e","/">>
      [] n = "config" -> <<"c","o","n","f","i","g","/">>
      [] n = "model" -> <<"m","o","d","e","l","/">>
      [] n = "dto" -> <<"d","t","o","/">>
      [] n = "repository" -> <<"r","e","p","o","s","i","t","o","r","y","/">>
      [] n = "service" -> <<"s","e","r","v","i","c","e","/">>
      [] n = "controller" -> <<"c","o","n","t","r","o","l","l","e","r","/">>

\* the source directory of a package
RECURSIVE DirectoryOf(_)
DirectoryOf(package) ==
    IF package = <<>> THEN <<"s","r","c","/","m","a","i","n","/","j","a","v","a","/">>
    ELSE DirectoryOf(SubSeq(package, 1, Len(package) - 1)) \o PathOf(package[Len(package)])

IsJavaFile(k) == EndsWith(k, <<".","j","a","v","a">>)

\* the key k is a file name directly in the directory dir
InDirectory(k, dir) ==
    /\ Len(k) > Len(dir)
    /\ SubSeq(k, 1, Len(dir)) = dir
    /\ ~InSeq(SubSeq(k, Len(dir) + 1, Len(k)), "/")

\* some file of the map declares the class name in the package
Declared(files, package, name) ==
    \E k \in DOMAIN files :
        /\ IsJavaFile(k)
        /\ "className" \in DOMAIN files[k]
        /\ files[k].package = package
        /\ files[k].className = name

\* C30: for every package name given to the constructor, each Java file of
\* generateAll declares the package of the directory of its key, and every
\* import of a generated class names the package that declares the class.
C30_PackageIsDirectory ==
    ret.call = "generateAll" =>
        \A k \in DOMAIN ret.value :
            IsJavaFile(k) =>
                /\ InDirectory(k, DirectoryOf(ret.value[k].package))
                /\ "imports" \in DOMAIN ret.value[k] =>
                       \A i \in ret.value[k].imports :
                           Declared(ret.value, i.package, i.name)

====
